---- MODULE Spec2Model ----
(***************************************************************************)
(* Model of the PCAP extractor datasource backend                          *)
(* (pkg/plugin/datasource.go): the request handler, the status handler    *)
(* and the health check, together with the external Step Functions and S3  *)
(* presign calls they make.                                                *)
(*                                                                         *)
(* Representation of Go values:                                            *)
(*  - a text (error message, health message) is the sequence of its words *)
(*    and punctuation marks, so that "contains" is a real sub-sequence     *)
(*    test and fmt.Sprintf("prefix: %v", e) is a concatenation;            *)
(*  - an ARN string is the sequence of its colon-separated segments; the   *)
(*    empty string is the single empty segment <<"">>;                     *)
(*  - a pointer or error that may be nil is a sequence of length 0 or 1.   *)
(***************************************************************************)
EXTENDS Integers, Sequences, FiniteSets, TLC

\* ------------------------------------------------------------ bounds ----
MaxJobs == 2

MaxFiles == 2

MaxPacket == 1

MaxListLen == 1

MaxBatch == 2

\* clicks on the download button during the life of one component
MaxClicks == 3

\* status queries that are in flight at the same time
MaxInFlight == 2

\* ----------------------------------------------------- value universes --
JobPool == <<"run-1", "run-2", "run-3", "run-4">>

FilePool == <<"a.pcap", "b.pcap", "c.pcap", "d.pcap">>

JobIds == {""} \cup {JobPool[i] : i \in 1..MaxJobs}

Files == {FilePool[i] : i \in 1..MaxFiles}

PacketLists == UNION {[1..n -> 1..MaxPacket] : n \in 0..MaxListLen}

None == <<>>

Some(x) == <<x>>

\* map[string][]int: a nil map, or a map from some file names to lists
ExtractMaps ==
    {[isNil |-> TRUE, entries |-> <<>>]} \cup
    {[isNil |-> FALSE, entries |-> m] :
        m \in UNION {[S -> PacketLists] : S \in SUBSET Files}}

QueryActions == {"request", "status"}

QueryModels == [Action : QueryActions, JobId : JobIds, Extract : ExtractMaps]

RequestQueryModels == [Action : {"request"}, JobId : JobIds, Extract : ExtractMaps]

\* the status handler never reads Extract: a nil map, an empty one and a
\* filled one stand for all of them
StatusQueryModels ==
    [Action : {"status"}, JobId : JobIds,
     Extract : {[isNil |-> TRUE, entries |-> <<>>],
                [isNil |-> FALSE, entries |-> <<>>],
                [isNil |-> FALSE, entries |-> [f \in {FilePool[1]} |-> <<1>>]]}]

\* configured Step Function ARNs: blank, well formed (two partitions, one
\* whose state machine is itself called stateMachine), and malformed
ArnBlank == <<"">>

ArnPool ==
    { ArnBlank,
      <<"arn", "aws", "states", "eu-west-1", "123456789012", "stateMachine", "my-pcap-extractor">>,
      <<"arn", "aws-cn", "states", "cn-north-1", "210987654321", "stateMachine", "stateMachine">>,
      <<"arn", "aws", "states", "us-east-1", "123456789012", "stateMachine", "stateMachine">>,
      <<"invalid-arn">>,
      <<"arn", "aws", "states">> }

Buckets == {"", "test-bucket"}

\* error texts of the external services, as words
ServiceErrors == { <<"AccessDenied">>, <<"execution", "not", "found">> }

ExecutionStatuses == {"RUNNING", "SUCCEEDED", "FAILED", "TIMED_OUT", "ABORTED"}

EngineErrors == {None, Some("States.TaskFailed")}

EngineCauses == {None, Some("Network timeout")}

PresignedUrls == {"https://s3.example/one", "https://s3.example/two"}

\* what the external services answer during one operation; a successful
\* StartExecution carries the ExecutionArn the SDK declares required, which
\* the handler only logs
StartOutcomes == [err : {None} \cup {Some(e) : e \in ServiceErrors}]

DescribeOutcomes ==
    [err : {Some(e) : e \in ServiceErrors}, Status : {""}, Error : {None}, Cause : {None}]
    \cup [err : {None}, Status : ExecutionStatuses, Error : EngineErrors, Cause : EngineCauses]

PresignOutcomes ==
    [err : {Some(e) : e \in ServiceErrors}, URL : {""}]
    \cup [err : {None}, URL : PresignedUrls]

StateMachineOutcomes == [err : {None} \cup {Some(e) : e \in ServiceErrors}]

\* ------------------------------------------------------------- texts ----
Contains(text, sub) ==
    \E i \in 0..(Len(text) - Len(sub)) : SubSeq(text, i + 1, i + Len(sub)) = sub

StartsWith(text, prefix) ==
    Len(text) >= Len(prefix) /\ SubSeq(text, 1, Len(prefix)) = prefix

\* ---------------------------------------------------------- responses ---
StatusBadRequest == "StatusBadRequest"

StatusUnset == "StatusUnset"

HealthStatusOk == "HealthStatusOk"

HealthStatusError == "HealthStatusError"

\* backend.ErrDataResponse(status, message)
ErrDataResponse(status, message) ==
    [Error |-> Some(message), Status |-> status, Frames |-> <<>>]

NewField(name, value) == [Name |-> name, Value |-> value]

NewFrame(name, fields) == [Name |-> name, Fields |-> fields]

FrameResponse(frame) ==
    [Error |-> None, Status |-> StatusUnset, Frames |-> <<frame>>]

\* result of running a handler: the response, the external calls made in
\* order, and whether the handler panicked on a nil client
Outcome(resp, calls) == [response |-> resp, calls |-> calls, panicked |-> FALSE]

NoResponse == [Error |-> None, Status |-> StatusUnset, Frames |-> <<>>]

Panic(calls) == [response |-> NoResponse, calls |-> calls, panicked |-> TRUE]

\* ------------------------------------------------------ external calls --
\* a call as the mock client would record it: the parameters sent and the
\* answer (error and output) received
StartExecutionCall(name, stateMachineArn, input, answer) ==
    [api |-> "StartExecution",
     params |-> [Name |-> name, StateMachineArn |-> stateMachineArn, Input |-> input],
     err |-> answer.err, result |-> answer]

DescribeExecutionCall(executionArn, answer) ==
    [api |-> "DescribeExecution", params |-> [ExecutionArn |-> executionArn],
     err |-> answer.err, result |-> answer]

PresignGetObjectCall(bucket, key, expires, answer) ==
    [api |-> "PresignGetObject",
     params |-> [Bucket |-> bucket, Key |-> key, Expires |-> expires],
     err |-> answer.err, result |-> answer]

DescribeStateMachineCall(stateMachineArn, answer) ==
    [api |-> "DescribeStateMachine", params |-> [StateMachineArn |-> stateMachineArn],
     err |-> answer.err, result |-> answer]

\* ------------------------------------------------------------- arn ------
arnSections == 6

Section(segs, i) == IF i <= Len(segs) THEN segs[i] ELSE ""

\* strings.SplitN(arn, ":", 6)[5]: everything after the fifth colon
ResourceOf(segs) == SubSeq(segs, arnSections, Len(segs))

ArnFields(segs, err) ==
    [err |-> err,
     Partition |-> Section(segs, 2), Service |-> Section(segs, 3),
     Region |-> Section(segs, 4), AccountID |-> Section(segs, 5),
     Resource |-> ResourceOf(segs)]

\* mutant: only the prefix is checked
ParseArn_NoSectionCheck(segs) ==
    IF ~(Len(segs) >= 2 /\ segs[1] = "arn")
    THEN ArnFields(<<>>, Some(<<"arn", ":", "invalid", "prefix">>))
    ELSE ArnFields(segs, None)

\* arn.Parse: the string must start with "arn:" and have six sections
ParseArn(segs) ==
    IF ~(Len(segs) >= 2 /\ segs[1] = "arn")
    THEN ArnFields(<<>>, Some(<<"arn", ":", "invalid", "prefix">>))
    ELSE IF Len(segs) < arnSections
    THEN ArnFields(<<>>, Some(<<"arn", ":", "not", "enough", "sections">>))
    ELSE ArnFields(segs, None)

\* strings.Replace(resource, "stateMachine:", "", 1): the first segment that
\* is stateMachine and is followed by a colon disappears
RemoveStateMachinePrefix(resource) ==
    LET hits == {i \in 1..(Len(resource) - 1) : resource[i] = "stateMachine"}
    IN  IF hits = {} THEN resource
        ELSE LET i == CHOOSE k \in hits : \A j \in hits : k <= j
             IN  SubSeq(resource, 1, i - 1) \o SubSeq(resource, i + 1, Len(resource))

\* mutant: the resource is used as it is, stateMachine: included
ExecutionArnOf_KeepsPrefix(arn, jobId) ==
    <<"arn", "aws", "states", arn.Region, arn.AccountID, "execution">>
    \o arn.Resource \o <<jobId>>

\* fmt.Sprintf("arn:aws:states:%v:%v:execution:%v:%v", ...)
ExecutionArnOf(arn, jobId) ==
    <<"arn", "aws", "states", arn.Region, arn.AccountID, "execution">>
    \o RemoveStateMachinePrefix(arn.Resource) \o <<jobId>>

\* ------------------------------------------------------------- json -----
RECURSIVE KeysFrom(_, _)
\* the keys of a map in sorted order (FilePool lists the names in order)
KeysFrom(i, keys) ==
    IF i > Len(FilePool) THEN <<>>
    ELSE (IF FilePool[i] \in keys THEN <<FilePool[i]>> ELSE <<>>) \o KeysFrom(i + 1, keys)

MarshalExtract(extract) ==
    IF extract.isNil THEN <<"null">>
    ELSE LET keys == KeysFrom(1, DOMAIN extract.entries)
         IN  <<"object", [i \in 1..Len(keys) |-> <<keys[i], extract.entries[keys[i]]>>]>>

\* mutant: the members go out under their Go names, the json tags missing
Marshal_GoNames(input) ==
    << <<"JobId", input.JobId>>, <<"Bucket", input.Bucket>>,
       <<"Extract", MarshalExtract(input.Extract)>> >>

\* json.Marshal(StepFunctionInput): the members in declaration order under
\* their json names
Marshal(input) ==
    << <<"jobId", input.JobId>>, <<"bucket", input.Bucket>>,
       <<"extract", MarshalExtract(input.Extract)>> >>

\* ------------------------------------------------------- the handlers ---
\* opts.Expires = time.Hour * 1, in seconds
PresignExpires == 3600

\* mutant: only a nil map counts as empty
ExtractIsEmpty_NilOnly(qm) == qm.Extract.isNil

\* len(qm.Extract) == 0
ExtractIsEmpty(qm) == Cardinality(DOMAIN qm.Extract.entries) = 0

\* mutant: the job id check is left out
JobIdIsBlank_Never(qm) == FALSE

\* qm.JobId == ""
JobIdIsBlank(qm) == qm.JobId = ""

\* mutant: a failed StartExecution is tried a second time
executeStepFunction_RetryOnce(d, name, input, start) ==
    IF ~d.sfnClient THEN [panicked |-> TRUE, err |-> None, calls |-> <<>>]
    ELSE LET call == StartExecutionCall(name, d.settings.StepFunctionArn,
                                        Marshal(input), start)
         IN  IF start.err # None
             THEN [panicked |-> FALSE,
                   err |-> Some(<<"failed", "to", "execute", "Step", "Function",
                                  "execution", ":">> \o start.err[1]),
                   calls |-> <<call, call>>]
             ELSE [panicked |-> FALSE, err |-> None, calls |-> <<call>>]

\* mutant: the error of StartExecution is replaced, not wrapped
executeStepFunction_HidesCause(d, name, input, start) ==
    IF ~d.sfnClient THEN [panicked |-> TRUE, err |-> None, calls |-> <<>>]
    ELSE LET call == StartExecutionCall(name, d.settings.StepFunctionArn,
                                        Marshal(input), start)
         IN  IF start.err # None
             THEN [panicked |-> FALSE,
                   err |-> Some(<<"failed", "to", "execute", "Step", "Function",
                                  "execution">>),
                   calls |-> <<call>>]
             ELSE [panicked |-> FALSE, err |-> None, calls |-> <<call>>]

\* executeStepFunction: marshal the input and start the execution named
\* after the job; json.Marshal cannot fail on a StepFunctionInput.  The
\* result is the error (nil on success) and the calls made; a nil client
\* makes the call panic.
executeStepFunction(d, name, input, start) ==
    IF ~d.sfnClient THEN [panicked |-> TRUE, err |-> None, calls |-> <<>>]
    ELSE LET call == StartExecutionCall(name, d.settings.StepFunctionArn,
                                        Marshal(input), start)
         IN  IF start.err # None
             THEN [panicked |-> FALSE,
                   err |-> Some(<<"failed", "to", "execute", "Step", "Function",
                                  "execution", ":">> \o start.err[1]),
                   calls |-> <<call>>]
             ELSE [panicked |-> FALSE, err |-> None, calls |-> <<call>>]

\* mutant: the job id is reported under the status name and the status last
RequestFrame_Swapped(qm) ==
    NewFrame("step_function_request",
             <<NewField("job_id", qm.JobId), NewField("status", "RUNNING")>>)

\* the frame of a started request: status (assumed RUNNING) and job_id
RequestFrame(qm) ==
    NewFrame("step_function_request",
             <<NewField("status", "RUNNING"), NewField("job_id", qm.JobId)>>)

handleRequestAction(d, qm, start) ==
    IF ExtractIsEmpty(qm)
    THEN Outcome(ErrDataResponse(StatusBadRequest,
            <<"Extract", "parameter", "is", "required", "for", "request", "action">>), <<>>)
    ELSE IF JobIdIsBlank(qm)
    THEN Outcome(ErrDataResponse(StatusBadRequest,
            <<"JobId", "is", "required", "for", "request", "action">>), <<>>)
    ELSE LET sfnInput == [JobId |-> qm.JobId, Extract |-> qm.Extract,
                          Bucket |-> d.settings.S3Bucket]
             started == executeStepFunction(d, qm.JobId, sfnInput, start)
         IN  IF started.panicked THEN Panic(started.calls)
             ELSE IF started.err # None
             THEN Outcome(ErrDataResponse(StatusBadRequest,
                     <<"Step", "Function", "execution", "failed", ":">> \o started.err[1]),
                     started.calls)
             ELSE Outcome(FrameResponse(RequestFrame(qm)), started.calls)

\* generatePresignedURL: nil presigner is an error, otherwise one
\* PresignGetObject call with a one hour expiry
generatePresignedURL(d, bucket, key, presign) ==
    IF ~d.s3Presigner
    THEN [err |-> Some(<<"S3", "presigner", "is", "not", "initialized">>),
          URL |-> "", calls |-> <<>>]
    ELSE LET call == PresignGetObjectCall(bucket, key, PresignExpires, presign)
         IN  IF presign.err # None
             THEN [err |-> Some(<<"failed", "to", "generate", "presigned", "URL", ":">>
                                \o presign.err[1]),
                   URL |-> "", calls |-> <<call>>]
             ELSE [err |-> None, URL |-> presign.URL, calls |-> <<call>>]

\* mutant: the key has the suffix of the source captures
S3KeyOf_Pcap(jobId) == <<jobId, ".pcap">>

\* fmt.Sprintf("%s.pcapng", qm.JobId): the key is the job id and the suffix
S3KeyOf(jobId) == <<jobId, ".pcapng">>

\* mutant: the error is reported for every status
ErrorFields_AnyStatus(result) ==
    IF result.Error # None THEN <<NewField("error", result.Error[1])>> ELSE <<>>

\* the error field: only for a FAILED execution that carries an error
ErrorFields(result) ==
    IF result.Status = "FAILED" /\ result.Error # None
    THEN <<NewField("error", result.Error[1])>> ELSE <<>>

\* mutant: the cause is reported for a FAILED execution only
CauseFields_OnlyFailed(result) ==
    IF result.Status = "FAILED" /\ result.Cause # None
    THEN <<NewField("cause", result.Cause[1])>> ELSE <<>>

\* the cause field: whenever the engine gave a cause
CauseFields(result) ==
    IF result.Cause # None THEN <<NewField("cause", result.Cause[1])>> ELSE <<>>

\* mutant: every finished execution asks for a URL
WantsDownloadUrl_NotRunning(status) == status # "RUNNING"

\* whether a presigned URL is asked for
WantsDownloadUrl(status) == status = "SUCCEEDED"

\* mutant: the field is appended whether or not presigning worked
DownloadFields_Always(presigned) == <<NewField("download_url", presigned.URL)>>

\* the download_url field: only when the presigned URL was generated
DownloadFields(presigned) ==
    IF presigned.err # None THEN <<>> ELSE <<NewField("download_url", presigned.URL)>>

\* mutant: the cause is appended before the error
StatusFields_CauseFirst(result, download) ==
    <<NewField("status", result.Status)>> \o CauseFields(result) \o ErrorFields(result)
    \o download

\* the fields of the status frame in the order they are appended
StatusFields(result, download) ==
    <<NewField("status", result.Status)>> \o ErrorFields(result) \o CauseFields(result)
    \o download

handleStatusAction(d, qm, describe, presign) ==
    IF JobIdIsBlank(qm)
    THEN Outcome(ErrDataResponse(StatusBadRequest,
            <<"JobId", "is", "required", "for", "status", "action">>), <<>>)
    ELSE LET arn == ParseArn(d.settings.StepFunctionArn)
         IN  IF arn.err # None
             THEN Outcome(ErrDataResponse(StatusBadRequest,
                     <<"Failed", "to", "parse", "Step", "Function", "ARN", ":">>
                     \o arn.err[1]), <<>>)
             ELSE IF ~d.sfnClient THEN Panic(<<>>)
             ELSE LET executionArn == ExecutionArnOf(arn, qm.JobId)
                      result == describe
                      described == DescribeExecutionCall(executionArn, result)
                  IN  IF result.err # None
                      THEN Outcome(ErrDataResponse(StatusBadRequest,
                              <<"Failed", "to", "get", "execution", "status", ":">>
                              \o result.err[1]), <<described>>)
                      ELSE IF WantsDownloadUrl(result.Status)
                      THEN LET presigned == generatePresignedURL(d, d.settings.S3Bucket,
                                                                 S3KeyOf(qm.JobId), presign)
                               download == DownloadFields(presigned)
                           IN  Outcome(FrameResponse(NewFrame("step_function_status",
                                           StatusFields(result, download))),
                                       <<described>> \o presigned.calls)
                      ELSE Outcome(FrameResponse(NewFrame("step_function_status",
                                       StatusFields(result, <<>>))), <<described>>)

\* --------------------------------------------------------- CheckHealth --
HealthResult(status, message, calls) ==
    [Status |-> status, Message |-> message, err |-> None, calls |-> calls]

\* mutant: the ARN is checked before the bucket
MissingSetting_ArnFirst(settings) ==
    IF settings.StepFunctionArn = ArnBlank
    THEN Some(<<"Step", "Function", "ARN", "is", "missing">>)
    ELSE IF settings.S3Bucket = "" THEN Some(<<"S3", "Bucket", "name", "is", "missing">>)
    ELSE None

\* the two configuration checks, bucket first: the message of the first
\* blank setting, or nil
MissingSetting(settings) ==
    IF settings.S3Bucket = "" THEN Some(<<"S3", "Bucket", "name", "is", "missing">>)
    ELSE IF settings.StepFunctionArn = ArnBlank
    THEN Some(<<"Step", "Function", "ARN", "is", "missing">>)
    ELSE None

\* strings.Join(messages, ","): the separator is a word of its own here
RECURSIVE Join(_)
Join(messages) ==
    IF Len(messages) = 0 THEN <<>>
    ELSE IF Len(messages) = 1 THEN messages[1]
    ELSE messages[1] \o <<",">> \o Join(Tail(messages))

\* mutant: the underlying error is not put into the message
AccessProblem_NoDetail(d, stateMachine) ==
    IF d.sfnClient /\ stateMachine.err # None
    THEN Some(<<"Cannot", "access", "Step", "Function">>)
    ELSE None

\* the message of a failed DescribeStateMachine, or nil (also without client)
AccessProblem(d, stateMachine) ==
    IF d.sfnClient /\ stateMachine.err # None
    THEN Some(<<"Cannot", "access", "Step", "Function", ":">> \o stateMachine.err[1])
    ELSE None

CheckHealth(d, stateMachine) ==
    LET missing == MissingSetting(d.settings)
    IN  IF missing # None THEN HealthResult(HealthStatusError, missing[1], <<>>)
        ELSE LET call == DescribeStateMachineCall(d.settings.StepFunctionArn,
                                                  stateMachine)
                 calls == IF d.sfnClient THEN <<call>> ELSE <<>>
                 messages ==
                     (IF d.sfnClient THEN << <<"Step", "Function", "is", "accessible">> >>
                      ELSE <<>>)
                     \o << <<"S3", "Bucket", "access", "is", "not", "being", "tested", ".">> >>
                 problem == AccessProblem(d, stateMachine)
             IN  IF problem # None
                 THEN HealthResult(HealthStatusError, problem[1], calls)
                 ELSE HealthResult(HealthStatusOk,
                         <<"Data", "source", "is", "working", ":">> \o Join(messages), calls)

\* ------------------------------------------------------ the query router -
\* JSON values as the decoder sees them
JAbsent == [t |-> "absent"]

JNull == [t |-> "null"]

JNumber == [t |-> "number"]

JString(s) == [t |-> "string", s |-> s]

JObject(m) == [t |-> "object", m |-> m]

\* the member names the decoder matches to a field of queryModel: it
\* compares names without regard to case, so the panel's jobId and extract
\* reach JobId and Extract; any other member is skipped
FieldOfKey(key) ==
    CASE key \in {"action", "Action"} -> "Action"
      [] key \in {"JobId", "jobId"} -> "JobId"
      [] key \in {"Extract", "extract"} -> "Extract"
      [] OTHER -> "none"

\* a query payload: text that is no JSON at all, or an object with members
Member(key, value) == IF value = JAbsent THEN <<>> ELSE << <<key, value>> >>

JsonDoc(action, jobKey, job, extractKey, extract) ==
    [syntaxOk |-> TRUE,
     members |-> << <<"refId", JString("A")>> >> \o Member("action", action)
                 \o Member(jobKey, job) \o Member(extractKey, extract)]

InvalidJson == [syntaxOk |-> FALSE, members |-> <<>>]

JsonActions == {JAbsent, JString("request"), JString("status"), JString("delete"), JNumber}

JsonJobs == {JAbsent, JString(""), JString(JobPool[1]), JNumber}

JsonExtracts ==
    {JAbsent, JNull, JObject(<<>>), JObject([f \in {FilePool[1]} |-> <<1>>]), JString("all")}

JsonDocs ==
    {InvalidJson} \cup
    {JsonDoc(a, jk, j, ek, e) : a \in JsonActions, jk \in {"JobId", "jobId"}, j \in JsonJobs,
                                ek \in {"Extract", "extract"}, e \in JsonExtracts}

ZeroQueryModel == [Action |-> "", JobId |-> "", Extract |-> [isNil |-> TRUE, entries |-> <<>>]]

TypeError(value, field) ==
    Some(<<"json", ":", "cannot", "unmarshal", value.t, "into", "Go", "struct", "field",
           field>>)

\* one member decoded into the query model: a string into Action or JobId,
\* an object into Extract; null leaves the field, another type is an error
\* (the first error is kept and decoding goes on)
DecodeMember(acc, key, value) ==
    LET field == FieldOfKey(key)
        fail == [acc EXCEPT !.err = IF acc.err = None THEN TypeError(value, field) ELSE acc.err]
    IN  IF field = "none" \/ value.t = "null" THEN acc
        ELSE IF field = "Action"
        THEN IF value.t = "string" THEN [acc EXCEPT !.qm.Action = value.s] ELSE fail
        ELSE IF field = "JobId"
        THEN IF value.t = "string" THEN [acc EXCEPT !.qm.JobId = value.s] ELSE fail
        ELSE IF value.t = "object"
             THEN [acc EXCEPT !.qm.Extract = [isNil |-> FALSE, entries |-> value.m]]
             ELSE fail

RECURSIVE DecodeMembers(_, _)
DecodeMembers(acc, members) ==
    IF members = <<>> THEN acc
    ELSE DecodeMembers(DecodeMember(acc, members[1][1], members[1][2]), Tail(members))

\* json.Unmarshal(query.JSON, &qm)
Unmarshal(doc) ==
    IF ~doc.syntaxOk
    THEN [qm |-> ZeroQueryModel, err |-> Some(<<"invalid", "character">>)]
    ELSE DecodeMembers([qm |-> ZeroQueryModel, err |-> None], doc.members)

\* mutant: the bucket is checked before the ARN
validateSettings_BucketFirst(d) ==
    IF d.settings.S3Bucket = ""
    THEN Some(<<"S3", "Bucket", "name", "not", "configured">>)
    ELSE IF d.settings.StepFunctionArn = ArnBlank
    THEN Some(<<"Step", "Function", "ARN", "not", "configured">>)
    ELSE None

\* validateSettings: the error of the first blank setting, ARN first
validateSettings(d) ==
    IF d.settings.StepFunctionArn = ArnBlank
    THEN Some(<<"Step", "Function", "ARN", "not", "configured">>)
    ELSE IF d.settings.S3Bucket = ""
    THEN Some(<<"S3", "Bucket", "name", "not", "configured">>)
    ELSE None

\* the answers the external services would give while one query is handled:
\* every answer to StartExecution, and every combination of a few answers to
\* DescribeExecution and PresignGetObject (a query makes calls of one kind)
RouterDescribes ==
    {r \in DescribeOutcomes :
        \/ r.err = Some(<<"AccessDenied">>)
        \/ r.err = None /\ r.Error = None /\ r.Cause = None
           /\ r.Status \in {"RUNNING", "SUCCEEDED"}
        \/ r.err = None /\ r.Error # None /\ r.Cause # None /\ r.Status = "FAILED"}

RouterPresigns ==
    {r \in PresignOutcomes : r.err = Some(<<"AccessDenied">>) \/ r.URL = "https://s3.example/one"}

RouterAnswers ==
    [start : StartOutcomes, describe : {r \in RouterDescribes : r.Status = "RUNNING"},
     presign : {r \in RouterPresigns : r.err = None}]
    \cup [start : {[err |-> None]}, describe : RouterDescribes, presign : RouterPresigns]

\* mutant: a request is handled whatever the action says
Dispatch_DefaultsToRequest(d, qm, answers) ==
    IF qm.Action = "status"
    THEN handleStatusAction(d, qm, answers.describe, answers.presign)
    ELSE handleRequestAction(d, qm, answers.start)

\* switch qm.Action
Dispatch(d, qm, answers) ==
    IF qm.Action = "request" THEN handleRequestAction(d, qm, answers.start)
    ELSE IF qm.Action = "status"
    THEN handleStatusAction(d, qm, answers.describe, answers.presign)
    ELSE Outcome(ErrDataResponse(StatusBadRequest,
            <<"unknown", "action", ":", "'", qm.Action, "'">>), <<>>)

\* Datasource.query: settings, then the payload, then the action
query(d, doc, answers) ==
    LET invalid == validateSettings(d)
        parsed == Unmarshal(doc)
    IN  IF invalid # None
        THEN Outcome(ErrDataResponse(StatusBadRequest,
                <<"Incomplete", "plugin", "settings", ":">> \o invalid[1]), <<>>)
        ELSE IF parsed.err # None
        THEN Outcome(ErrDataResponse(StatusBadRequest,
                <<"json", "unmarshal", ":">> \o parsed.err[1]), <<>>)
        ELSE Dispatch(d, parsed.qm, answers)

\* ------------------------------------------------------------ QueryData --
RefIDs == {"A", "B"}

\* the payloads and service answers the queries of a batch are drawn from:
\* no JSON, a request, a status check and an unknown action; all services
\* answering well, or all failing
BatchDocs ==
    { InvalidJson,
      JsonDoc(JString("request"), "jobId", JString(JobPool[1]), "extract",
              JObject([f \in {FilePool[1]} |-> <<1>>])),
      JsonDoc(JString("status"), "JobId", JString(JobPool[1]), "Extract", JAbsent),
      JsonDoc(JString("delete"), "JobId", JString(JobPool[1]), "Extract", JAbsent) }

BatchAnswers ==
    { [start |-> [err |-> None],
       describe |-> [err |-> None, Status |-> "SUCCEEDED", Error |-> None, Cause |-> None],
       presign |-> [err |-> None, URL |-> "https://s3.example/one"]],
      [start |-> [err |-> Some(<<"AccessDenied">>)],
       describe |-> [err |-> Some(<<"execution", "not", "found">>), Status |-> "",
                     Error |-> None, Cause |-> None],
       presign |-> [err |-> Some(<<"AccessDenied">>), URL |-> ""]] }

BatchQueries == [RefID : RefIDs, JSON : BatchDocs, answers : BatchAnswers]

Batches == UNION {[1..n -> BatchQueries] : n \in 0..MaxBatch}

\* response.Responses[q.RefID] = res
PutResponse(responses, refID, res) ==
    [r \in DOMAIN responses \cup {refID} |-> IF r = refID THEN res ELSE responses[r]]

\* mutant: the loop ends at the first query that is answered with an error
RECURSIVE QueryDataLoop_StopAtError(_, _, _)
QueryDataLoop_StopAtError(d, queries, acc) ==
    IF queries = <<>> THEN acc
    ELSE LET q == queries[1]
             out == query(d, q.JSON, q.answers)
             next == [Responses |-> PutResponse(acc.Responses, q.RefID, out.response),
                      calls |-> acc.calls \o out.calls, panicked |-> FALSE]
         IN  IF out.panicked
             THEN [Responses |-> <<>>, calls |-> acc.calls \o out.calls, panicked |-> TRUE]
             ELSE IF out.response.Error # None THEN next
             ELSE QueryDataLoop_StopAtError(d, Tail(queries), next)

\* for _, q := range req.Queries: each query is handled and its response
\* stored under its RefID; a panic of a handler ends the whole call
RECURSIVE QueryDataLoop(_, _, _)
QueryDataLoop(d, queries, acc) ==
    IF queries = <<>> THEN acc
    ELSE LET q == queries[1]
             out == query(d, q.JSON, q.answers)
         IN  IF out.panicked
             THEN [Responses |-> <<>>, calls |-> acc.calls \o out.calls, panicked |-> TRUE]
             ELSE QueryDataLoop(d, Tail(queries),
                     [Responses |-> PutResponse(acc.Responses, q.RefID, out.response),
                      calls |-> acc.calls \o out.calls, panicked |-> FALSE])

\* QueryData: a new response, the loop, and a nil error
QueryData(d, queries) ==
    LET done == QueryDataLoop(d, queries,
                    [Responses |-> <<>>, calls |-> <<>>, panicked |-> FALSE])
    IN  [Responses |-> done.Responses, err |-> None, calls |-> done.calls,
         panicked |-> done.panicked]

\* ---------------------------------------------------- the download panel --
\* job ids of the panel: "run-" and the time of the click
PanelJobId(j) == JobPool[j]

requiredFieldNames == <<"source_file", "source_packet_number">>

\* the rows of the first series: a source file and a packet number each
PanelRows ==
    { << [source_file |-> FilePool[1], source_packet_number |-> 1],
         [source_file |-> FilePool[1], source_packet_number |-> 1] >> }

\* data.series: no series at all, or a first series with some of the
\* columns (rows only matter once both required columns are there)
PanelSeries ==
    { <<>> }
    \cup { <<[fields |-> fs, rows |-> <<>>]>> :
              fs \in { {"time"}, {"source_file", "time"} } }
    \cup { <<[fields |-> {"source_file", "source_packet_number", "time"}, rows |-> r]>> :
              r \in PanelRows }

\* requiredFieldNames.filter(name => !foundFieldNames.includes(name))
MissingFields(series) ==
    LET found == IF Len(series) = 0 THEN {} ELSE series[1].fields
    IN  SelectSeq(requiredFieldNames, LAMBDA name : name \notin found)

\* the packet numbers of each source file, every number once, in row order
RECURSIVE GroupRows(_, _)
GroupRows(rows, grouped) ==
    IF rows = <<>> THEN grouped
    ELSE LET sourceFile == rows[1].source_file
             packetNumber == rows[1].source_packet_number
             sofar == IF sourceFile \in DOMAIN grouped THEN grouped[sourceFile] ELSE <<>>
             list == IF \E i \in 1..Len(sofar) : sofar[i] = packetNumber
                     THEN sofar ELSE Append(sofar, packetNumber)
         IN  GroupRows(Tail(rows),
                 [f \in DOMAIN grouped \cup {sourceFile} |->
                     IF f = sourceFile THEN list ELSE grouped[f]])

GroupedData(series) == GroupRows(series[1].rows, <<>>)

\* the payloads the panel posts
RequestQuery(jobId, groupedData) ==
    JsonDoc(JString("request"), "jobId", JString(jobId), "extract", JObject(groupedData))

StatusQuery(jobId) ==
    JsonDoc(JString("status"), "jobId", JString(jobId), "extract", JAbsent)

\* the datasource the panel's queries are sent to
PanelDatasource ==
    [settings |-> [StepFunctionArn |-> <<"arn", "aws", "states", "eu-west-1",
                                         "123456789012", "stateMachine",
                                         "my-pcap-extractor">>,
                   S3Bucket |-> "test-bucket"],
     sfnClient |-> TRUE, s3Presigner |-> TRUE]

\* what the services answer while a job of the panel is looked after
PanelAnswers ==
    [start : {r \in StartOutcomes : r.err \in {None, Some(<<"AccessDenied">>)}},
     describe : {r \in DescribeOutcomes :
                    \/ r.err = Some(<<"AccessDenied">>)
                    \/ r.err = None /\ r.Error = None /\ r.Cause = None
                       /\ r.Status \in {"RUNNING", "SUCCEEDED"}
                    \/ r.err = None /\ r.Error # None /\ r.Cause # None
                       /\ r.Status = "FAILED"},
     presign : {r \in PresignOutcomes :
                    r.err = Some(<<"AccessDenied">>) \/ r.URL = "https://s3.example/one"}]

\* values thrown in the panel: an Error object, or the plain object with
\* which backendSrv.post rejects
ErrorObject(message) == [isError |-> TRUE, message |-> message]

FetchError(data) == [isError |-> FALSE, data |-> data]

\* JSON.stringify(error, null, 2): an Error object has no enumerable
\* property of its own and is written as {}; a plain object is written
\* with its members
JSONStringify(thrown) ==
    IF thrown.isError THEN <<"{}">> ELSE <<"{">> \o thrown.data \o <<"}">>

\* what backendSrv.post gives for one query: it rejects (the connection
\* failed, or the reply had an error status), or it resolves with the body
\* of the reply, which holds the frames of the query's response
Rejected(data) == [rejected |-> TRUE, thrown |-> FetchError(data), frames |-> <<>>]

RECURSIVE WireFields(_)
WireFields(fields) ==
    IF fields = <<>> THEN <<>>
    ELSE <<[name |-> fields[1].Name, values |-> <<fields[1].Value>>]>>
         \o WireFields(Tail(fields))

WireFrame(frame) == [fields |-> WireFields(frame.Fields)]

RECURSIVE WireFrames(_)
WireFrames(frames) ==
    IF frames = <<>> THEN <<>> ELSE <<WireFrame(frames[1])>> \o WireFrames(Tail(frames))

Resolved(resp) ==
    [rejected |-> FALSE, thrown |-> FetchError(<<>>), frames |-> WireFrames(resp.Frames)]

PostResults(doc) ==
    UNION { LET resp == query(PanelDatasource, doc, answers).response
            IN  IF resp.Error # None
                THEN {Rejected(resp.Error[1]), Resolved(resp)}
                ELSE {Resolved(resp)} : answers \in PanelAnswers }

\* the replies a status query of each job can get
RECURSIVE StatusRepliesFrom(_)
StatusRepliesFrom(j) ==
    IF j > MaxClicks THEN <<>>
    ELSE <<PostResults(StatusQuery(PanelJobId(j)))>> \o StatusRepliesFrom(j + 1)

StatusReplies == StatusRepliesFrom(1)

\* the request queries each job can post, each with the replies it can get
RECURSIVE RequestRepliesFrom(_)
RequestRepliesFrom(j) ==
    IF j > MaxClicks THEN <<>>
    ELSE << { LET doc == RequestQuery(PanelJobId(j), GroupRows(rows, <<>>))
              IN  [doc |-> doc, replies |-> PostResults(doc)] : rows \in PanelRows } >>
         \o RequestRepliesFrom(j + 1)

RequestReplies == RequestRepliesFrom(1)

\* extractFieldValues: the first value of every named field of the first
\* frame that has values
extractFieldValues(reply) ==
    IF Len(reply.frames) = 0 THEN <<>>
    ELSE LET fields == reply.frames[1].fields
             named == {i \in 1..Len(fields) :
                          fields[i].name # "" /\ Len(fields[i].values) > 0}
         IN  [name \in {fields[i].name : i \in named} |->
                 LET last == CHOOSE i \in named :
                                 /\ fields[i].name = name
                                 /\ \A k \in named : fields[k].name = name => k <= i
                 IN  fields[last].values[1]]

\* names joined with ", "
RECURSIVE JoinNames(_)
JoinNames(names) ==
    IF Len(names) = 0 THEN <<>>
    ELSE IF Len(names) = 1 THEN <<names[1]>>
    ELSE <<names[1], ",">> \o JoinNames(Tail(names))

\* handleDownload, the two validations: the error thrown, or none
Validate(opts, d) ==
    IF opts.pcapExtractorDataSource = ""
    THEN Some(ErrorObject(<<"PCAP", "Extractor", "data", "source", "not", "configured">>))
    ELSE IF Len(MissingFields(d.series)) > 0
    THEN Some(ErrorObject(<<"Missing", "required", "fields", ":">>
                          \o JoinNames(MissingFields(d.series))))
    ELSE None

\* handleDownload, catch: the text set as the panel's error
RequestFailure(thrown) ==
    <<"Failed", "to", "request", "PCAP", "extraction", ":">> \o JSONStringify(thrown)

\* pollJobStatus, catch
PollFailure(thrown) ==
    <<"Failed", "to", "poll", "status", ":">> \o JSONStringify(thrown)

\* pollJobStatus, a status that is neither RUNNING nor SUCCEEDED
JobFailure(status, responseData) ==
    <<"Job", "failed", "with", "status", ":", status>>
    \o (IF "error" \in DOMAIN responseData
        THEN <<"\n", "Error", ":", responseData["error"]>> ELSE <<>>)
    \o (IF "cause" \in DOMAIN responseData
        THEN <<"\n", "Cause", ":", responseData["cause"]>> ELSE <<>>)

\* what one run of pollJobStatus does once its post has settled: whether it
\* clears the interval of the timer handle, the URL it downloads, the
\* download state and the error it sets, and the status it saw
PollEffects(status, clear, download, state, err) ==
    [status |-> status, clear |-> clear, download |-> download, state |-> state,
     error |-> err]

\* mutant: the download is triggered without looking for the URL
pollJobStatus_DownloadsAnyway(reply) ==
    LET responseData == extractFieldValues(reply)
        status == IF "status" \in DOMAIN responseData THEN responseData["status"] ELSE ""
    IN  IF reply.rejected \/ status = ""
        THEN PollEffects("", TRUE, None, None, Some(PollFailure(ErrorObject(<<>>))))
        ELSE IF status = "RUNNING"
        THEN PollEffects(status, FALSE, None, None, None)
        ELSE IF status = "SUCCEEDED"
        THEN PollEffects(status, TRUE, Some(""), Some("downloaded"), None)
        ELSE PollEffects(status, TRUE, None, None, Some(JobFailure(status, responseData)))

pollJobStatus(reply) ==
    LET responseData == extractFieldValues(reply)
        status == IF "status" \in DOMAIN responseData THEN responseData["status"] ELSE ""
        downloadUrl == IF "download_url" \in DOMAIN responseData
                       THEN responseData["download_url"] ELSE ""
    IN  IF reply.rejected
        THEN PollEffects("", TRUE, None, None, Some(PollFailure(reply.thrown)))
        ELSE IF status = ""
        THEN PollEffects("", TRUE, None, None,
                 Some(PollFailure(ErrorObject(<<"Invalid", "status", "response", "format">>))))
        ELSE IF status = "RUNNING"
        THEN PollEffects(status, FALSE, None, None, None)
        ELSE IF status = "SUCCEEDED"
        THEN PollEffects(status, TRUE,
                 IF downloadUrl # "" THEN Some(downloadUrl) ELSE None,
                 Some("downloaded"), None)
        ELSE PollEffects(status, TRUE, None, None, Some(JobFailure(status, responseData)))

\* ----------------------------------------------------------- the state --
VARIABLES settings, sfnClient, s3Presigner, op, response, batchResponse, health, calls,
          panicked

\* the Download component: whether it is mounted, its two pieces of React
\* state, the timer handle it keeps, its props, and per click the job it
\* started (request, polls in flight, interval timer, downloads triggered);
\* replies holds, for the queries the panel can post, the replies the
\* datasource can give
VARIABLES mounted, downloadState, error, pollingIntervalRef, options, data, jobs, replies

backendVars == <<settings, sfnClient, s3Presigner, op, response, batchResponse, health,
                 calls, panicked>>

\* no query of a panel is under way
NoReplies == [status |-> <<>>, request |-> <<>>]

panelVars == <<mounted, downloadState, error, pollingIntervalRef, options, data, jobs,
               replies>>

vars == <<backendVars, panelVars>>

Datasource == [settings |-> settings, sfnClient |-> sfnClient, s3Presigner |-> s3Presigner]

NoHealth == [Status |-> "", Message |-> <<>>, err |-> None, calls |-> <<>>]

NoBatchResponse == [Responses |-> <<>>, err |-> None]

\* a datasource instance as constructed (NewDatasource sets both clients;
\* the tests also build instances without them); no operation is running
\* the component right after it is mounted
Mounted ==
    /\ mounted = TRUE
    /\ downloadState = "idle"
    /\ error = None
    /\ pollingIntervalRef = 0
    /\ jobs = <<>>

Init ==
    /\ Mounted
    /\ options = [pcapExtractorDataSource |-> "uid"]
    /\ data = [series |-> <<>>, loading |-> FALSE]
    /\ replies = NoReplies
    /\ settings \in [StepFunctionArn : ArnPool, S3Bucket : Buckets]
    /\ sfnClient \in BOOLEAN
    /\ s3Presigner \in BOOLEAN
    /\ op = [kind |-> "none"]
    /\ response = NoResponse
    /\ health = NoHealth
    /\ batchResponse = NoBatchResponse
    /\ calls = <<>>
    /\ panicked = FALSE

Idle == op.kind = "none"

Handled(kind, qm, out) ==
    /\ op' = [kind |-> kind, qm |-> qm]
    /\ response' = out.response
    /\ calls' = out.calls
    /\ panicked' = out.panicked
    /\ health' = NoHealth
    /\ UNCHANGED <<settings, sfnClient, s3Presigner, batchResponse, panelVars>>

\* a call of handleRequestAction with any query model
HandleRequest ==
    /\ Idle
    /\ \E qm \in RequestQueryModels, start \in StartOutcomes :
           Handled("request", qm, handleRequestAction(Datasource, qm, start))

\* a call of handleStatusAction with any query model
HandleStatus ==
    /\ Idle
    /\ \E qm \in StatusQueryModels, describe \in DescribeOutcomes,
          presign \in PresignOutcomes :
           Handled("status", qm, handleStatusAction(Datasource, qm, describe, presign))

\* a call of query with any payload
DoQuery ==
    /\ Idle
    /\ \E doc \in JsonDocs, answers \in RouterAnswers :
        LET out == query(Datasource, doc, answers)
        IN  /\ op' = [kind |-> "query", json |-> doc]
            /\ response' = out.response
            /\ calls' = out.calls
            /\ panicked' = out.panicked
            /\ health' = NoHealth
            /\ UNCHANGED <<settings, sfnClient, s3Presigner, batchResponse, panelVars>>

\* a call of QueryData with a batch of queries
DoQueryData ==
    /\ Idle
    /\ \E queries \in Batches :
        LET res == QueryData(Datasource, queries)
        IN  /\ op' = [kind |-> "QueryData", queries |-> queries]
            /\ batchResponse' = [Responses |-> res.Responses, err |-> res.err]
            /\ calls' = res.calls
            /\ panicked' = res.panicked
            /\ response' = NoResponse
            /\ health' = NoHealth
            /\ UNCHANGED <<settings, sfnClient, s3Presigner, panelVars>>

\* a call of CheckHealth
DoCheckHealth ==
    /\ Idle
    /\ \E stateMachine \in StateMachineOutcomes :
        LET res == CheckHealth(Datasource, stateMachine)
        IN  /\ op' = [kind |-> "health"]
            /\ health' = [res EXCEPT !.calls = <<>>]
            /\ calls' = res.calls
            /\ response' = NoResponse
            /\ panicked' = FALSE
            /\ UNCHANGED <<settings, sfnClient, s3Presigner, batchResponse, panelVars>>

\* the result has been handed to the caller; the instance waits for the
\* next operation with its settings and clients as they were
Return ==
    /\ ~Idle
    /\ op' = [kind |-> "none"]
    /\ response' = NoResponse
    /\ health' = NoHealth
    /\ calls' = <<>>
    /\ panicked' = FALSE
    /\ batchResponse' = NoBatchResponse
    /\ UNCHANGED <<settings, sfnClient, s3Presigner, panelVars>>

\* -- the steps of the Download component --

NewJob(request, posted) ==
    [request |-> request, posted |-> posted, polls |-> 0, timer |-> FALSE,
     downloads |-> "none"]

\* a job is over once its request has settled and it has neither a status
\* query in flight nor an interval: nothing of it can run any more. Of the
\* jobs that are over, a step keeps the latest only
Over(job) == job.request # "inflight" /\ job.polls = 0 /\ ~job.timer

RECURSIVE Forget(_)
Forget(js) ==
    IF js = <<>> THEN <<>>
    ELSE <<IF Over(js[1]) THEN NewJob("over", None) ELSE js[1]>> \o Forget(Tail(js))

\* how often the browser download of a job was triggered, after one more
OneMoreDownload(downloads) == IF downloads = "none" THEN "once" ELSE "again"

\* status queries in flight, of all jobs
RECURSIVE InFlightFrom(_)
InFlightFrom(j) == IF j > Len(jobs) THEN 0 ELSE jobs[j].polls + InFlightFrom(j + 1)

InFlight == InFlightFrom(1)

Tidy(js) ==
    IF Len(js) < 2 THEN js ELSE Forget(SubSeq(js, 1, Len(js) - 1)) \o <<js[Len(js)]>>

\* the jobs a step starts from
Live == Tidy(jobs)

\* clearInterval(handle): the interval of that job stops firing
ClearInterval(js, handle) ==
    IF handle = 0 THEN js ELSE [js EXCEPT ![handle].timer = FALSE]

PanelDatas == [series : PanelSeries, loading : BOOLEAN]

\* getButtonProps and the button: whether a click reaches handleDownload
ButtonEnabled(d) ==
    /\ downloadState \in {"idle", "error"}
    /\ options.pcapExtractorDataSource # ""
    /\ Len(d.series) > 0
    /\ ~d.loading

\* the state a React setter leaves: nothing changes once unmounted
SetState(current, value) == IF mounted THEN value ELSE current

\* mutant: the polling is started whatever became of the request
StartsPolling_Always(reply) == TRUE

\* handleDownload after its await: a rejected post throws past the lines
\* that start the polling
StartsPolling(reply) == ~reply.rejected

\* a click on the button as rendered with the data the dashboard handed
\* over last: handleDownload up to its await
Click ==
    /\ mounted /\ Len(jobs) < MaxClicks
    /\ \E d \in PanelDatas : data' = d
    /\ ButtonEnabled(data')
    /\ LET j == Len(jobs) + 1
           thrown == Validate(options, data')
       IN  /\ downloadState' = "processing"
           /\ IF thrown # None
              THEN /\ error' = Some(RequestFailure(thrown[1]))
                   /\ jobs' = Append(Live, NewJob("none", None))
              ELSE /\ error' = None
                   /\ jobs' = Append(Live, NewJob("inflight",
                                 Some(RequestQuery(PanelJobId(j), GroupedData(data'.series)))))
       /\ UNCHANGED <<mounted, pollingIntervalRef, options, replies, backendVars>>

\* the request query settles: handleDownload after its await, or its catch
RequestReturns ==
    \E j \in 1..Len(jobs) :
        /\ jobs[j].request = "inflight"
        /\ \E posted \in replies.request[j] :
           posted.doc = jobs[j].posted[1] /\ \E reply \in posted.replies :
            LET started == StartsPolling(reply)
            IN  /\ started => InFlight < MaxInFlight
                /\ jobs' = [Live EXCEPT
                               ![j].request = IF reply.rejected THEN "failed" ELSE "ok",
                               ![j].posted = None,
                               ![j].timer = started,
                               ![j].polls = IF started THEN @ + 1 ELSE @]
                /\ pollingIntervalRef' = IF started THEN j ELSE pollingIntervalRef
                /\ error' = IF reply.rejected
                            THEN SetState(error, Some(RequestFailure(reply.thrown)))
                            ELSE error
        /\ UNCHANGED <<mounted, downloadState, options, data, replies, backendVars>>

\* the interval of a job fires: pollJobStatus up to its await
TimerTick ==
    \E j \in 1..Len(jobs) :
        /\ jobs[j].timer
        /\ InFlight < MaxInFlight
        /\ jobs' = [Live EXCEPT ![j].polls = @ + 1]
        /\ UNCHANGED <<mounted, downloadState, error, pollingIntervalRef, options, data,
                       replies, backendVars>>

\* a status query of job j settles with a reply: pollJobStatus after its
\* await
PollSettles(j, reply) ==
    /\ jobs[j].polls > 0
    /\ LET did == pollJobStatus(reply)
           handle == pollingIntervalRef
           settled == [Live EXCEPT ![j].polls = @ - 1,
                          ![j].downloads =
                              IF did.download # None THEN OneMoreDownload(@) ELSE @]
       IN  /\ jobs' = IF did.clear THEN ClearInterval(settled, handle) ELSE settled
           /\ pollingIntervalRef' = IF did.clear THEN 0 ELSE handle
           /\ downloadState' = IF did.state # None
                               THEN SetState(downloadState, did.state[1])
                               ELSE downloadState
           /\ error' = IF did.error # None THEN SetState(error, did.error) ELSE error
    /\ UNCHANGED <<mounted, options, data, replies, backendVars>>

PollReturns == \E j \in 1..Len(jobs) : \E reply \in replies.status[j] : PollSettles(j, reply)

\* the two effects that reset the download state: both run after a render
\* in which downloadState changed, and do the same
ResetDownload ==
    /\ mounted
    /\ downloadState \in {"downloaded", "error"}
    /\ downloadState' = "idle"
    /\ error' = None
    /\ jobs' = ClearInterval(Live, pollingIntervalRef)
    /\ pollingIntervalRef' = 0
    /\ UNCHANGED <<mounted, options, data, replies, backendVars>>

\* the component is unmounted: the cleanup of the first effect runs, and
\* the React state is gone with the component (the ref object lives on in
\* the closures of what is still under way)
Unmount ==
    /\ mounted
    /\ mounted' = FALSE
    /\ jobs' = ClearInterval(Live, pollingIntervalRef)
    /\ downloadState' = "idle"
    /\ error' = None
    /\ UNCHANGED <<pollingIntervalRef, options, data, replies, backendVars>>

\* a component mounted in a dashboard whose datasource is set up
PanelInit ==
    /\ Mounted
    /\ options \in [pcapExtractorDataSource : {"", "uid"}]
    /\ data = [series |-> <<>>, loading |-> FALSE]
    /\ replies = [status |-> StatusReplies, request |-> RequestReplies]
    /\ settings = PanelDatasource.settings
    /\ sfnClient = TRUE
    /\ s3Presigner = TRUE
    /\ op = [kind |-> "none"]
    /\ response = NoResponse
    /\ health = NoHealth
    /\ batchResponse = NoBatchResponse
    /\ calls = <<>>
    /\ panicked = FALSE

PanelNext ==
    \/ Click \/ RequestReturns \/ TimerTick \/ PollReturns
    \/ ResetDownload \/ Unmount

PanelSpec == PanelInit /\ [][PanelNext]_vars

\* the browser runs what is due: a settled query is handed to its handler,
\* an interval fires, an effect runs; clicks and unmounting are up to the user
PanelFairSpec ==
    /\ PanelSpec
    /\ WF_vars(RequestReturns) /\ WF_vars(TimerTick) /\ WF_vars(PollReturns)
    /\ WF_vars(ResetDownload)

Next == HandleRequest \/ HandleStatus \/ DoQuery \/ DoQueryData \/ DoCheckHealth \/ Return

Spec == Init /\ [][Next]_vars

\* ------------------------------------------------- reading the result ---
IsRequest == op.kind = "request"

IsStatus == op.kind = "status"

IsHealth == op.kind = "health"

CallsTo(api) == {i \in 1..Len(calls) : calls[i].api = api}

\* a bad-request error response without frames whose message contains part
IsBadRequest(part) ==
    /\ response.Error # None
    /\ response.Status = StatusBadRequest
    /\ response.Frames = <<>>
    /\ Contains(response.Error[1], part)

\* a response without error that carries exactly one frame
IsFrameResponse == response.Error = None /\ Len(response.Frames) = 1 /\ ~panicked

FieldsOfFrame == IF Len(response.Frames) = 1 THEN response.Frames[1].Fields ELSE <<>>

FieldsNamed(name) == {i \in 1..Len(FieldsOfFrame) : FieldsOfFrame[i].Name = name}

ExtractCount == Cardinality(DOMAIN op.qm.Extract.entries)

\* what DescribeExecution answered in this operation, when it was called
\* and succeeded
Described == {calls[i].result : i \in {k \in CallsTo("DescribeExecution") : calls[k].err = None}}

DescribedStatus(st) == \E r \in Described : r.Status = st

Presigned == {calls[i].result : i \in {k \in CallsTo("PresignGetObject") : calls[k].err = None}}

\* ------------------------------------------------------------ claims ----
\* C1: a request whose extraction map is empty (nil or without entries) gets
\* a bad-request error containing "Extract parameter is required", no frame,
\* and StartExecution is not called.
C1_EmptyExtractRejected ==
    (IsRequest /\ ExtractCount = 0) =>
        /\ IsBadRequest(<<"Extract", "parameter", "is", "required">>)
        /\ CallsTo("StartExecution") = {}
        /\ ~panicked

C1_Witness ==
    /\ IsRequest /\ ~op.qm.Extract.isNil /\ ExtractCount = 0 /\ op.qm.JobId # ""
    /\ sfnClient
    /\ IsBadRequest(<<"Extract", "parameter", "is", "required">>)

\* C2 as claimed: a query with a blank job id gets, from both handlers and
\* whatever its other fields are, a bad-request error naming JobId, and no
\* external call is made.
C2_BlankJobIdNamesJobId ==
    ((IsRequest \/ IsStatus) /\ op.qm.JobId = "") =>
        /\ IsBadRequest(<<"JobId">>)
        /\ calls = <<>>

\* C2 as amended: a query with a blank job id gets a bad-request validation
\* error and no external call is made; the message names JobId for the
\* status handler and for a request with a non-empty extraction map, and
\* names Extract for a request whose extraction map is empty.
C2_BlankJobIdRejected ==
    ((IsRequest \/ IsStatus) /\ op.qm.JobId = "") =>
        /\ calls = <<>>
        /\ ~panicked
        /\ IF IsRequest /\ ExtractCount = 0
           THEN IsBadRequest(<<"Extract">>) /\ ~Contains(response.Error[1], <<"JobId">>)
           ELSE IsBadRequest(<<"JobId", "is", "required">>)

C2_Witness ==
    /\ IsRequest /\ op.qm.JobId = "" /\ ExtractCount > 0 /\ sfnClient
    /\ IsBadRequest(<<"JobId">>)

\* C3: when StartExecution succeeds for a request, the response has no error
\* and exactly one frame with exactly the fields status = RUNNING and
\* job_id = the job id of the query, in this order.
C3_StartedRequestFrame ==
    (IsRequest /\ \E i \in CallsTo("StartExecution") : calls[i].err = None) =>
        /\ IsFrameResponse
        /\ FieldsOfFrame = <<NewField("status", "RUNNING"), NewField("job_id", op.qm.JobId)>>

C3_Witness ==
    /\ IsRequest /\ op.qm.JobId = JobPool[2]
    /\ \E i \in CallsTo("StartExecution") : calls[i].err = None
    /\ Len(FieldsOfFrame) = 2

\* C4: a status response has a download_url field exactly when
\* DescribeExecution answered SUCCEEDED and PresignGetObject succeeded, the
\* field then holds the presigned URL; for any other status PresignGetObject
\* is not called.
C4_DownloadUrlIffPresigned ==
    IsStatus =>
        /\ (FieldsNamed("download_url") # {}) <=> (DescribedStatus("SUCCEEDED") /\ Presigned # {})
        /\ \A i \in FieldsNamed("download_url") : \A r \in Presigned : FieldsOfFrame[i].Value = r.URL
        /\ Cardinality(FieldsNamed("download_url")) <= 1
        /\ ~DescribedStatus("SUCCEEDED") => CallsTo("PresignGetObject") = {}

C4_Witness ==
    /\ IsStatus /\ DescribedStatus("SUCCEEDED")
    /\ \E r \in Presigned : r.URL = "https://s3.example/two"
    /\ \E i \in FieldsNamed("download_url") : FieldsOfFrame[i].Value = "https://s3.example/two"

\* C5 as claimed: for a DescribeExecution result whose status is not FAILED,
\* whatever error and cause the engine returned, the status response has
\* neither an error field nor a cause field.
C5_NoErrorNoCauseUnlessFailed ==
    (IsStatus /\ \E r \in Described : r.Status # "FAILED") =>
        FieldsNamed("error") = {} /\ FieldsNamed("cause") = {}

\* C5 as amended: for a DescribeExecution result whose status is not FAILED,
\* whatever error and cause the engine returned, the status response has no
\* error field; it has a cause field exactly when the engine returned a
\* cause, carrying that cause.
C5_NoErrorUnlessFailed ==
    \A r \in Described :
        (IsStatus /\ r.Status # "FAILED") =>
            /\ IsFrameResponse
            /\ FieldsNamed("error") = {}
            /\ (FieldsNamed("cause") # {}) <=> (r.Cause # None)
            /\ \A i \in FieldsNamed("cause") : FieldsOfFrame[i].Value = r.Cause[1]

C5_Witness ==
    /\ IsStatus
    /\ \E r \in Described : r.Status = "SUCCEEDED" /\ r.Error # None /\ r.Cause # None
    /\ FieldsNamed("error") = {}
    /\ FieldsNamed("cause") # {}

\* C6: for a DescribeExecution result with status FAILED and both error and
\* cause set, the status frame has exactly the three fields status, error,
\* cause, in this order, carrying the engine's strings unchanged.
C6_FailedFrame ==
    \A r \in Described :
        (IsStatus /\ r.Status = "FAILED" /\ r.Error # None /\ r.Cause # None) =>
            /\ IsFrameResponse
            /\ FieldsOfFrame = <<NewField("status", "FAILED"), NewField("error", r.Error[1]),
                                 NewField("cause", r.Cause[1])>>

C6_Witness ==
    /\ IsStatus /\ Len(FieldsOfFrame) = 3
    /\ \E r \in Described : r.Status = "FAILED" /\ r.Error # None /\ r.Cause # None

\* the configured ARN is no ARN: it does not start with arn: or has fewer
\* than six sections
ArnUnparsable == ~(Len(settings.StepFunctionArn) >= 6 /\ settings.StepFunctionArn[1] = "arn")

\* C7: when the configured Step Function ARN cannot be parsed, the status
\* handler answers a query with a non-blank job id with a bad-request error
\* containing "Failed to parse Step Function ARN" and calls neither
\* DescribeExecution nor PresignGetObject.
C7_UnparsableArnRejected ==
    (IsStatus /\ op.qm.JobId # "" /\ ArnUnparsable) =>
        /\ IsBadRequest(<<"Failed", "to", "parse", "Step", "Function", "ARN">>)
        /\ CallsTo("DescribeExecution") = {}
        /\ CallsTo("PresignGetObject") = {}
        /\ ~panicked

C7_Witness ==
    /\ IsStatus /\ op.qm.JobId # "" /\ sfnClient
    /\ settings.StepFunctionArn = <<"arn", "aws", "states">>
    /\ IsBadRequest(<<"not", "enough", "sections">>)

\* C8: CheckHealth answers Error with the message "S3 Bucket name is
\* missing" whenever the bucket setting is blank, also when the ARN is blank
\* too, and does not call DescribeStateMachine then.
C8_BlankBucketFirst ==
    (IsHealth /\ settings.S3Bucket = "") =>
        /\ health.Status = HealthStatusError
        /\ health.Message = <<"S3", "Bucket", "name", "is", "missing">>
        /\ calls = <<>>

C8_Witness ==
    /\ IsHealth /\ settings.S3Bucket = "" /\ settings.StepFunctionArn = ArnBlank
    /\ sfnClient
    /\ health.Status = HealthStatusError

\* C9: with both settings non-blank, CheckHealth answers Ok if there is no
\* Step Functions client (and then makes no call) or DescribeStateMachine
\* succeeds, and Error with "Cannot access Step Function: <error>" if
\* DescribeStateMachine fails; it never returns a Go error and calls
\* DescribeStateMachine at most once.
C9_HealthAccess ==
    IsHealth =>
        /\ health.err = None
        /\ Cardinality(CallsTo("DescribeStateMachine")) <= 1
        /\ (settings.S3Bucket # "" /\ settings.StepFunctionArn # ArnBlank) =>
            /\ ~sfnClient => (health.Status = HealthStatusOk /\ calls = <<>>)
            /\ sfnClient => Len(calls) = 1 /\ calls[1].api = "DescribeStateMachine"
            /\ \A i \in CallsTo("DescribeStateMachine") :
                  IF calls[i].err = None
                  THEN health.Status = HealthStatusOk
                  ELSE /\ health.Status = HealthStatusError
                       /\ health.Message = <<"Cannot", "access", "Step", "Function", ":">>
                                           \o calls[i].err[1]

C9_Witness ==
    /\ IsHealth /\ health.Status = HealthStatusError
    /\ settings.S3Bucket # "" /\ settings.StepFunctionArn # ArnBlank
    /\ \E i \in CallsTo("DescribeStateMachine") : calls[i].err = Some(<<"AccessDenied">>)

\* C10: when DescribeExecution answers SUCCEEDED but no presigned URL can be
\* generated (PresignGetObject fails or there is no presigner), the status
\* response is still no error: its frame carries status SUCCEEDED and has no
\* download_url field.
C10_PresignFailureTolerated ==
    (IsStatus /\ DescribedStatus("SUCCEEDED") /\ Presigned = {}) =>
        /\ IsFrameResponse
        /\ FieldsOfFrame[1] = NewField("status", "SUCCEEDED")
        /\ FieldsNamed("download_url") = {}

C10_Witness ==
    /\ IsStatus /\ DescribedStatus("SUCCEEDED")
    /\ \E i \in CallsTo("PresignGetObject") : calls[i].err # None
    /\ IsFrameResponse

C10_WitnessNoPresigner ==
    /\ IsStatus /\ DescribedStatus("SUCCEEDED") /\ ~s3Presigner
    /\ IsFrameResponse


\* the calls of this operation that failed
FailedCalls(api) == {i \in CallsTo(api) : calls[i].err # None}

EndsWith(text, suffix) ==
    Len(text) >= Len(suffix)
    /\ SubSeq(text, Len(text) - Len(suffix) + 1, Len(text)) = suffix

\* C11 as claimed: when StartExecution (request) or DescribeExecution
\* (status) fails, the response is a bad-request error without frame whose
\* message is the handler's prefix followed by the underlying error message.
C11_PrefixThenUnderlying ==
    /\ \A i \in FailedCalls("StartExecution") :
          IsRequest =>
            /\ IsBadRequest(<<"Step", "Function", "execution", "failed", ":">>)
            /\ response.Error[1] = <<"Step", "Function", "execution", "failed", ":">>
                                   \o calls[i].err[1]
    /\ \A i \in FailedCalls("DescribeExecution") :
          IsStatus =>
            /\ IsBadRequest(<<"Failed", "to", "get", "execution", "status", ":">>)
            /\ response.Error[1] = <<"Failed", "to", "get", "execution", "status", ":">>
                                   \o calls[i].err[1]

\* C11 as amended: when StartExecution (request) or DescribeExecution
\* (status) fails, the response is a bad-request error without frame whose
\* message starts with the handler's prefix and ends with the underlying error
\* message; for a status check nothing stands between them, for a request
\* the text "failed to execute Step Function execution:" does.
C11_ExternalFailureSurfaced ==
    /\ \A i \in FailedCalls("StartExecution") :
          IsRequest =>
            /\ IsBadRequest(<<"Step", "Function", "execution", "failed", ":">>)
            /\ response.Error[1] =
                  <<"Step", "Function", "execution", "failed", ":">>
                  \o <<"failed", "to", "execute", "Step", "Function", "execution", ":">>
                  \o calls[i].err[1]
    /\ \A i \in FailedCalls("DescribeExecution") :
          IsStatus =>
            /\ IsBadRequest(<<"Failed", "to", "get", "execution", "status", ":">>)
            /\ response.Error[1] = <<"Failed", "to", "get", "execution", "status", ":">>
                                   \o calls[i].err[1]

C11_Witness ==
    /\ IsRequest
    /\ \E i \in FailedCalls("StartExecution") : calls[i].err = Some(<<"execution", "not", "found">>)
    /\ EndsWith(response.Error[1], <<"execution", "not", "found">>)


IsQuery == op.kind = "query"

SettingsComplete == settings.StepFunctionArn # ArnBlank /\ settings.S3Bucket # ""

\* the response and the calls bear the marks of the request handler: its
\* frame or one of its errors, and no call but StartExecution
ByRequestHandler ==
    /\ \A i \in 1..Len(calls) : calls[i].api = "StartExecution"
    /\ \A i \in 1..Len(response.Frames) : response.Frames[i].Name = "step_function_request"
    /\ response.Error # None =>
          \/ Contains(response.Error[1], <<"for", "request", "action">>)
          \/ Contains(response.Error[1], <<"Step", "Function", "execution", "failed", ":">>)
    /\ panicked \/ response.Error # None \/ response.Frames # <<>>

\* the same for the status handler
ByStatusHandler ==
    /\ \A i \in 1..Len(calls) : calls[i].api \in {"DescribeExecution", "PresignGetObject"}
    /\ \A i \in 1..Len(response.Frames) : response.Frames[i].Name = "step_function_status"
    /\ response.Error # None =>
          \/ Contains(response.Error[1], <<"for", "status", "action">>)
          \/ Contains(response.Error[1], <<"Failed", "to", "parse", "Step", "Function", "ARN">>)
          \/ Contains(response.Error[1], <<"Failed", "to", "get", "execution", "status", ":">>)
    /\ panicked \/ response.Error # None \/ response.Frames # <<>>

\* the payload is JSON that fits the query model: every member that names a
\* field (in any case) is null or of the field's type
FitsQueryModel(doc) ==
    /\ doc.syntaxOk
    /\ \A i \in 1..Len(doc.members) :
          LET key == doc.members[i][1]
              value == doc.members[i][2]
          IN  \/ value.t = "null"
              \/ /\ (key \in {"action", "Action", "JobId", "jobId"} => value.t = "string")
                 /\ (key \in {"Extract", "extract"} => value.t = "object")

\* the action the payload names: its last string member called action
ActionOf(doc) ==
    LET hits == {i \in 1..Len(doc.members) :
                    doc.members[i][1] \in {"action", "Action"} /\ doc.members[i][2].t = "string"}
    IN  IF hits = {} THEN ""
        ELSE doc.members[CHOOSE k \in hits : \A j \in hits : j <= k][2].s

C12_WitnessUnknownAction ==
    /\ IsQuery /\ SettingsComplete /\ ActionOf(op.json) = "delete"
    /\ IsBadRequest(<<"unknown", "action", ":", "'", "delete", "'">>)

C12_WitnessTypeError ==
    /\ IsQuery /\ SettingsComplete /\ op.json.syntaxOk
    /\ IsBadRequest(<<"json", "unmarshal", ":", "json", ":", "cannot", "unmarshal", "number">>)

\* C13: if the Step Function ARN or the bucket setting is blank, every query
\* gets a bad-request error starting "Incomplete plugin settings:", whatever
\* its payload, without external call; the message names the Step Function
\* ARN when both are blank.
C13_IncompleteSettings ==
    (IsQuery /\ ~SettingsComplete) =>
        /\ IsBadRequest(<<"Incomplete", "plugin", "settings", ":">>)
        /\ StartsWith(response.Error[1], <<"Incomplete", "plugin", "settings", ":">>)
        /\ calls = <<>>
        /\ ~panicked
        /\ (settings.StepFunctionArn = ArnBlank /\ settings.S3Bucket = "") =>
              response.Error[1] = <<"Incomplete", "plugin", "settings", ":",
                                    "Step", "Function", "ARN", "not", "configured">>

C13_Witness ==
    /\ IsQuery /\ settings.StepFunctionArn = ArnBlank /\ settings.S3Bucket = ""
    /\ ~op.json.syntaxOk
    /\ Contains(response.Error[1], <<"Step", "Function", "ARN">>)


\* C14 as claimed: for a DescribeExecution result with a status other than
\* FAILED, a cause and no error, the status frame has exactly the two fields
\* status and cause, the cause unchanged.
C14_CauseOnlyFrameAnyStatus ==
    \A r \in Described :
        (IsStatus /\ r.Status # "FAILED" /\ r.Cause # None /\ r.Error = None) =>
            /\ IsFrameResponse
            /\ FieldsOfFrame = <<NewField("status", r.Status), NewField("cause", r.Cause[1])>>

\* C14 as amended: for such a result the status frame starts with the fields
\* status and cause, the cause unchanged; these are all its fields unless the
\* status is SUCCEEDED and a URL was presigned, when download_url follows.
C14_CauseOnlyFrame ==
    \A r \in Described :
        (IsStatus /\ r.Status # "FAILED" /\ r.Cause # None /\ r.Error = None) =>
            /\ IsFrameResponse
            /\ FieldsOfFrame =
                  <<NewField("status", r.Status), NewField("cause", r.Cause[1])>>
                  \o (IF r.Status = "SUCCEEDED" /\ Presigned # {}
                      THEN <<NewField("download_url", (CHOOSE p \in Presigned : TRUE).URL)>>
                      ELSE <<>>)

C14_Witness ==
    /\ IsStatus /\ Len(FieldsOfFrame) = 2
    /\ \E r \in Described : r.Status = "TIMED_OUT" /\ r.Cause = Some("Network timeout") /\ r.Error = None
    /\ FieldsOfFrame[2] = NewField("cause", "Network timeout")


\* a state machine ARN arn:<partition>:states:<region>:<account>:stateMachine:<name>
IsStateMachineArn(a) ==
    Len(a) = 7 /\ a[1] = "arn" /\ a[3] = "states" /\ a[6] = "stateMachine"
    /\ \A i \in {2, 4, 5, 7} : a[i] # ""

\* the ARN the engine gives the execution called name of a state machine:
\* the state machine's partition, region and account, then execution, the
\* state machine's name and the execution's name
StartedExecutionArn(stateMachineArn, name) ==
    <<"arn", stateMachineArn[2], "states", stateMachineArn[4], stateMachineArn[5],
      "execution", stateMachineArn[7], name>>

\* C15: a request for job J starts the execution named J of the configured
\* state machine, and a status query for J under the same configuration
\* describes that very execution, for every well-formed configured ARN
\* (any partition, region, account and state machine name).
C15_StatusDescribesStartedExecution ==
    /\ \A i \in CallsTo("StartExecution") :
          IsRequest =>
            /\ calls[i].params.Name = op.qm.JobId
            /\ calls[i].params.StateMachineArn = settings.StepFunctionArn
    /\ \A i \in CallsTo("DescribeExecution") :
          (IsStatus /\ IsStateMachineArn(settings.StepFunctionArn)) =>
            calls[i].params.ExecutionArn =
                StartedExecutionArn(settings.StepFunctionArn, op.qm.JobId)


\* C16: for a configured ARN arn:aws:states:<region>:<account>:stateMachine:<name>
\* and a job id J the status handler calls DescribeExecution once, with
\* arn:aws:states:<region>:<account>:execution:<name>:J; the value is a
\* function of the settings and J alone.
C16_ExecutionArn ==
    (IsStatus /\ op.qm.JobId # "" /\ sfnClient
       /\ IsStateMachineArn(settings.StepFunctionArn) /\ settings.StepFunctionArn[2] = "aws") =>
        /\ Cardinality(CallsTo("DescribeExecution")) = 1
        /\ \A i \in CallsTo("DescribeExecution") :
              calls[i].params.ExecutionArn =
                  <<"arn", "aws", "states", settings.StepFunctionArn[4],
                    settings.StepFunctionArn[5], "execution", settings.StepFunctionArn[7],
                    op.qm.JobId>>

C16_Witness ==
    /\ IsStatus /\ op.qm.JobId = JobPool[2]
    /\ Len(settings.StepFunctionArn) = 7 /\ settings.StepFunctionArn[2] = "aws"
    /\ settings.StepFunctionArn[7] = "stateMachine"
    /\ \E i \in CallsTo("DescribeExecution") :
          calls[i].params.ExecutionArn =
              <<"arn", "aws", "states", "us-east-1", "123456789012", "execution",
                "stateMachine", JobPool[2]>>


\* the values a JSON object text holds under a member name
MembersNamed(json, name) == {json[i][2] : i \in {k \in 1..Len(json) : json[k][1] = name}}

\* the map a JSON encoding of the extraction map stands for
DecodedExtract(enc) ==
    IF enc[1] = "null" THEN [isNil |-> TRUE, entries |-> <<>>]
    ELSE LET pairs == enc[2]
             keys == {pairs[i][1] : i \in 1..Len(pairs)}
         IN  [isNil |-> FALSE,
              entries |-> [k \in keys |->
                             pairs[CHOOSE i \in 1..Len(pairs) : pairs[i][1] = k][2]]]

\* C17: for a valid request StartExecution is called once, with Name = the
\* job id, StateMachineArn = the configured ARN and an Input that is the JSON
\* object with exactly the members jobId, bucket and extract: the query's job
\* id, the configured bucket and the query's extraction map.
C17_StartExecutionInput ==
    (IsRequest /\ ExtractCount > 0 /\ op.qm.JobId # "" /\ sfnClient) =>
        /\ Cardinality(CallsTo("StartExecution")) = 1
        /\ \A i \in CallsTo("StartExecution") :
              LET p == calls[i].params
              IN  /\ p.Name = op.qm.JobId
                  /\ p.StateMachineArn = settings.StepFunctionArn
                  /\ Len(p.Input) = 3
                  /\ MembersNamed(p.Input, "jobId") = {op.qm.JobId}
                  /\ MembersNamed(p.Input, "bucket") = {settings.S3Bucket}
                  /\ \E e \in MembersNamed(p.Input, "extract") :
                        DecodedExtract(e) = op.qm.Extract

C17_Witness ==
    /\ IsRequest /\ ExtractCount = 2 /\ op.qm.JobId = JobPool[1]
    /\ settings.S3Bucket = "test-bucket"
    /\ \E i \in CallsTo("StartExecution") :
          /\ MembersNamed(calls[i].params.Input, "bucket") = {"test-bucket"}
          /\ \E e \in MembersNamed(calls[i].params.Input, "extract") :
                /\ Len(e[2]) = 2
                /\ e[2][1][1] = FilePool[1]
                /\ e[2][2][1] = FilePool[2]


\* C18: when a status query for job J finds the execution SUCCEEDED (and
\* there is a presigner), PresignGetObject is called once, with the
\* configured bucket, the key J.pcapng and an expiry of one hour.
C18_PresignParameters ==
    (IsStatus /\ DescribedStatus("SUCCEEDED")) =>
        /\ s3Presigner => Cardinality(CallsTo("PresignGetObject")) = 1
        /\ \A i \in CallsTo("PresignGetObject") :
              /\ calls[i].params.Bucket = settings.S3Bucket
              /\ calls[i].params.Key = <<op.qm.JobId, ".pcapng">>
              /\ calls[i].params.Expires = 60 * 60

C18_Witness ==
    /\ IsStatus /\ DescribedStatus("SUCCEEDED") /\ op.qm.JobId = JobPool[2]
    /\ settings.S3Bucket = "test-bucket"
    /\ \E i \in CallsTo("PresignGetObject") :
          calls[i].params.Key = <<JobPool[2], ".pcapng">> /\ calls[i].err = None


\* the number of calls of one kind made by the operation
Count(api) == Cardinality(CallsTo(api))

\* C19: handling one query makes one external call per logical operation
\* and repeats none: a valid request makes exactly one StartExecution; a valid
\* status check exactly one DescribeExecution and, only when that answered
\* SUCCEEDED, one PresignGetObject; a call that failed is the last call made.
C19_NoRetry ==
    (IsRequest \/ IsStatus \/ IsQuery) =>
        /\ Count("StartExecution") <= 1
        /\ Count("DescribeExecution") <= 1
        /\ Count("PresignGetObject") <= 1
        /\ Count("DescribeStateMachine") = 0
        /\ \A i \in 1..Len(calls) : calls[i].err # None => i = Len(calls)
        /\ (IsRequest /\ ExtractCount > 0 /\ op.qm.JobId # "" /\ sfnClient) =>
              Len(calls) = 1 /\ Count("StartExecution") = 1
        /\ (IsStatus /\ op.qm.JobId # "" /\ ~ArnUnparsable /\ sfnClient) =>
              /\ Count("DescribeExecution") = 1
              /\ calls[1].api = "DescribeExecution"
              /\ Count("PresignGetObject") =
                    (IF DescribedStatus("SUCCEEDED") /\ s3Presigner THEN 1 ELSE 0)
              /\ Count("StartExecution") = 0
        /\ IsRequest => Count("DescribeExecution") + Count("PresignGetObject") = 0

C19_Witness ==
    /\ IsRequest /\ Len(calls) = 1
    /\ calls[1].api = "StartExecution" /\ calls[1].err # None
    /\ response.Error # None

C19_WitnessStatus ==
    /\ IsStatus /\ Len(calls) = 2
    /\ calls[1].api = "DescribeExecution" /\ calls[2].api = "PresignGetObject"
    /\ calls[2].err # None


IsQueryData == op.kind = "QueryData"

\* the response the query at position i of the batch gets when sent alone
Alone(i) == query(Datasource, op.queries[i].JSON, op.queries[i].answers)

\* the service calls of the queries from position i on, each sent alone
RECURSIVE CallsFrom(_)
CallsFrom(i) == IF i > Len(op.queries) THEN <<>> ELSE Alone(i).calls \o CallsFrom(i + 1)

\* the query at position i is the last one of the batch with its RefID
LastOfRefID(i) ==
    \A j \in (i + 1)..Len(op.queries) : op.queries[j].RefID # op.queries[i].RefID

C20_BatchIndependent ==
    IsQueryData =>
        /\ panicked = (\E i \in 1..Len(op.queries) : Alone(i).panicked)
        /\ ~panicked =>
            /\ batchResponse.err = None
            /\ DOMAIN batchResponse.Responses =
                   {op.queries[i].RefID : i \in 1..Len(op.queries)}
            /\ \A i \in 1..Len(op.queries) :
                   LastOfRefID(i) =>
                       batchResponse.Responses[op.queries[i].RefID] = Alone(i).response
            /\ calls = CallsFrom(1)

\* C20: QueryData handles the queries of a batch independently: the response
\* map holds, for every RefID of the batch, the response its (last) query
\* gets when sent alone, whether or not other queries of the batch fail; the
\* service calls are those of the queries one after the other; the error
\* QueryData returns is nil; and no step changes the datasource settings or
\* its clients.
C20_QueryDataIndependent ==
    /\ []C20_BatchIndependent
    /\ [][UNCHANGED <<settings, sfnClient, s3Presigner>>]_vars

\* a batch whose first query fails and whose second query, under another
\* RefID, is answered with a frame after a service call
C20_Witness ==
    /\ IsQueryData /\ ~panicked /\ Len(op.queries) = 2
    /\ op.queries[1].RefID # op.queries[2].RefID
    /\ batchResponse.Responses[op.queries[1].RefID].Error # None
    /\ batchResponse.Responses[op.queries[2].RefID].Error = None
    /\ Len(batchResponse.Responses[op.queries[2].RefID].Frames) = 1
    /\ Len(calls) > 0

\* a batch that uses one RefID twice: the later response is the one kept
C20_WitnessSameRefID ==
    /\ IsQueryData /\ ~panicked /\ Len(op.queries) = 2
    /\ op.queries[1].RefID = op.queries[2].RefID
    /\ Alone(1).response # Alone(2).response
    /\ batchResponse.Responses[op.queries[1].RefID] = Alone(2).response


\* ------------------------------------------------- claims on the panel ---
LatestJob == Len(jobs)

\* the status a reply shows to the panel: "" when it shows none
ObservedStatus(reply) ==
    IF reply.rejected \/ Len(reply.frames) = 0 THEN ""
    ELSE LET fields == reply.frames[1].fields
         IN  IF \E i \in 1..Len(fields) : fields[i].name = "status"
             THEN (fields[CHOOSE i \in 1..Len(fields) : fields[i].name = "status"]).values[1]
             ELSE ""

\* the columns the last click found missing
MissingAtClick == {requiredFieldNames[i] : i \in 1..Len(requiredFieldNames)}
                  \ (IF Len(data.series) = 0 THEN {} ELSE data.series[1].fields)

\* C21 as stated: every click issues exactly one request query; status
\* queries and the interval of a job exist only after its request query
\* returned successfully; a failed request leaves no interval and no status
\* query.
C21_OneRequestThenPolling ==
    \A j \in 1..Len(jobs) :
        /\ jobs[j].request # "none"
        /\ (jobs[j].polls > 0 \/ jobs[j].timer) => jobs[j].request = "ok"
        /\ jobs[j].request = "failed" => jobs[j].polls = 0 /\ ~jobs[j].timer

\* C21 (amended): a click on data that has both required columns issues
\* exactly one request query and a click on data that lacks one issues
\* none; status queries and the interval of a job exist only after its
\* request query returned successfully; a click whose request query failed
\* or was never sent has no interval and no status query.
C21_RequestThenPolling ==
    /\ \A j \in 1..Len(jobs) :
        /\ (jobs[j].polls > 0 \/ jobs[j].timer) => jobs[j].request = "ok"
        /\ jobs[j].request \in {"failed", "none"} => jobs[j].polls = 0 /\ ~jobs[j].timer
        /\ jobs[j].request = "inflight" <=> jobs[j].posted # None
    /\ (mounted /\ LatestJob > 0) =>
          (jobs[LatestJob].request = "none" <=> MissingAtClick # {})

C21_Witness ==
    /\ LatestJob > 0
    /\ jobs[LatestJob].request = "ok" /\ jobs[LatestJob].timer /\ jobs[LatestJob].polls > 0

C21_WitnessFailed ==
    /\ mounted /\ LatestJob > 0
    /\ jobs[LatestJob].request = "failed" /\ error # None /\ pollingIntervalRef = 0

\* C22: a poll that observes a terminal status (SUCCEEDED or anything but
\* RUNNING) leaves the interval of its job cancelled, so that it issues no
\* further status query; a poll that observes RUNNING leaves the interval of
\* its job as it was.
C22_TerminalStatusCancelsTimer ==
    [][\A j \in 1..Len(jobs) : \A reply \in replies.status[j] :
          PollSettles(j, reply) =>
              /\ ObservedStatus(reply) \notin {"", "RUNNING"} => ~jobs'[j].timer
              /\ ObservedStatus(reply) = "RUNNING" => jobs'[j].timer = jobs[j].timer]_vars

\* C23: every failed poll (the backend call throws, or the response shows no
\* status) sets an error for the user and leaves the interval of its job
\* cancelled, so that no further status query follows it.
C23_FailedPollErrorAndCancel ==
    [][\A j \in 1..Len(jobs) : \A reply \in replies.status[j] :
          (PollSettles(j, reply) /\ ObservedStatus(reply) = "") =>
              /\ mounted => error' # None
              /\ ~jobs'[j].timer]_vars

\* whether a reply carries a download URL the panel can use
HasDownloadUrl(reply) == "download_url" \in DOMAIN extractFieldValues(reply)

\* C24 as stated: a poll that observes SUCCEEDED triggers a browser download
\* and, on a mounted component, moves the panel to the downloaded state.
C24_SucceededDownloads ==
    [][\A j \in 1..Len(jobs) : \A reply \in replies.status[j] :
          (PollSettles(j, reply) /\ ObservedStatus(reply) = "SUCCEEDED") =>
              /\ jobs'[j].downloads = OneMoreDownload(jobs[j].downloads)
              /\ mounted => downloadState' = "downloaded"]_vars

\* C24 (amended): a poll that observes SUCCEEDED moves a mounted panel to the
\* downloaded state; it triggers a browser download exactly when the
\* response carries a download URL, and no download otherwise.
C24_SucceededDownloadsIfUrl ==
    [][\A j \in 1..Len(jobs) : \A reply \in replies.status[j] :
          (PollSettles(j, reply) /\ ObservedStatus(reply) = "SUCCEEDED") =>
              /\ jobs'[j].downloads = IF HasDownloadUrl(reply)
                                      THEN OneMoreDownload(jobs[j].downloads)
                                      ELSE jobs[j].downloads
              /\ mounted => downloadState' = "downloaded"]_vars

C24_Witness ==
    /\ mounted /\ downloadState = "downloaded"
    /\ LatestJob = 1 /\ jobs[1].downloads = "once"

C24_WitnessNoUrl ==
    /\ mounted /\ downloadState = "downloaded"
    /\ LatestJob = 1 /\ jobs[1].downloads = "none"

\* C25: once the component is unmounted no interval remains active and no
\* further status query is issued, whatever it was doing when it was torn
\* down.
C25_UnmountStopsPolling ==
    [][~mounted' =>
          \A j \in 1..Len(jobs') :
              /\ ~jobs'[j].timer
              /\ (~mounted /\ j <= Len(jobs)) => jobs'[j].polls <= jobs[j].polls]_vars

\* C26: at most one status query of the panel is outstanding at any time; no
\* status query is issued while an earlier one of the same job has not
\* returned.
C26_OnePollOutstanding ==
    /\ InFlight <= 1
    /\ \A j \in 1..Len(jobs) : jobs[j].polls <= 1

\* whether a text names every one of the given fields
Names(text, names) ==
    \A i \in 1..Len(names) : \E k \in 1..Len(text) : text[k] = names[i]

\* C27: a click on data whose first series lacks source_file or
\* source_packet_number sets an error that names the missing fields, issues
\* no request query and starts no interval.
C27_MissingFieldsNamed ==
    [][(Len(jobs') > Len(jobs) /\ Len(MissingFields(data'.series)) > 0) =>
          /\ error' # None
          /\ Names(error'[1], MissingFields(data'.series))
          /\ jobs'[Len(jobs')].request = "none"
          /\ ~jobs'[Len(jobs')].timer /\ jobs'[Len(jobs')].polls = 0
          /\ pollingIntervalRef' = pollingIntervalRef]_vars

\* C28: for one click the browser download is triggered at most once,
\* whatever the interleaving of interval firings and status responses.
C28_DownloadAtMostOnce ==
    \A j \in 1..Len(jobs) : jobs[j].downloads # "again"

\* C29: a status response of an earlier job, arriving after a later click,
\* does not affect the job of the later click: it cancels no interval of a
\* later job, triggers no download and sets no error or state.
C29_StaleResponseHarmless ==
    [][\A j \in 1..Len(jobs) : \A reply \in replies.status[j] :
          (PollSettles(j, reply) /\ j < LatestJob) =>
              /\ \A k \in (j + 1)..LatestJob : jobs'[k].timer = jobs[k].timer
              /\ jobs'[j].downloads = jobs[j].downloads
              /\ error' = error
              /\ downloadState' = downloadState]_vars

\* the attempt of the latest click has ended in failure: its request query
\* failed, or a poll failed or saw a failed status, and the error is shown
AttemptFailed ==
    /\ mounted /\ downloadState = "processing" /\ error # None
    /\ LatestJob > 0
    /\ \/ jobs[LatestJob].request = "failed"
       \/ jobs[LatestJob].request = "ok" /\ ~jobs[LatestJob].timer

\* C30: after a download attempt has ended in failure the panel eventually
\* leaves the processing state, so that the button is enabled again.
C30_FailureLeavesProcessing ==
    AttemptFailed ~> (downloadState # "processing")

====
